---- MODULE Spec2Model ----
(***************************************************************************)
(* The post repository of blog-platform-api (src/src/posts/repository.ts)  *)
(* as a state machine over the relational store it writes.  Every `await   *)
(* db....` is one statement of the store and one step of the caller: the   *)
(* repository opens no transaction, so callers interleave between the      *)
(* statements of one call.  A throw and the catch block that classifies it *)
(* are local computation and belong to the step of the statement that      *)
(* threw.                                                                  *)
(***************************************************************************)
EXTENDS Integers, Sequences, FiniteSets, TLC

VARIABLES postTable, postsToTags, nextId, proc

vars == <<postTable, postsToTags, nextId, proc>>

tables == <<postTable, postsToTags>>

\* Bounds of the model ------------------------------------------------------
MaxPosts == 2   \* post rows the store ever generates an id for

\* The requests of a behaviour: each is one call of the repository; the two
\* overlap or follow one another.
Procs == {1, 2}

\* Values ---------------------------------------------------------------------
null == "null"
BadUuid == "not-a-uuid"   \* a string the store rejects as an identifier
None == <<>>              \* undefined / absent
Some(x) == <<x>>
IsSome(o) == Len(o) > 0
Get(o) == o[1]

\* Rows of the category and tag tables; their own repositories maintain them.
categoryTable == {"c1"}
tagTable == {"t1", "t2"}

PostIds == 1..MaxPosts
\* 0 stands for an id string that is not a uuid.
PostIdInputs == 0..MaxPosts
IsUuid(id) == id # 0

Titles == {<<"A", "b">>, <<"a", " ", "b">>, <<"C">>}
Contents == {"text"}
CategoryIdInputs == {null, "c1", "c9", BadUuid}
TagIdsInputs == {{}, {"t1", "t2"}, {"t1", "t9"}, {"t9"}, {BadUuid}}

\* Bags of tag ids (rows of a join, names of a payload).
EmptyBag == [t \in tagTable |-> 0]
SetToBag(S) == [t \in tagTable |-> IF t \in S THEN 1 ELSE 0]
BagAdd(a, b) == [t \in tagTable |-> a[t] + b[t]]

\* lib/index.js, slug ----------------------------------------------------------
Lower(c) == CASE c = "A" -> "a" [] c = "B" -> "b" [] c = "C" -> "c" [] OTHER -> c

RECURSIVE normalizeString(_)
normalizeString(s) ==
  IF s = <<>> THEN <<>>
  ELSE IF Head(s) = " " THEN normalizeString(Tail(s))
       ELSE <<Lower(Head(s))>> \o normalizeString(Tail(s))

slug(s) == [i \in 1..Len(s) |-> IF s[i] = " " THEN "-" ELSE Lower(s[i])]

\* lib/database/schema.js: names of the category and tag rows -----------------
categoryName == [c \in categoryTable |-> "News"]
tagName == [t \in tagTable |-> IF t = "t1" THEN "tag-one" ELSE "tag-two"]
TagNames == {tagName[t] : t \in tagTable}
\* tags.map((t) => t.name) over the rows of a select, as a bag of names
NamesOf(b) == [n \in TagNames |-> b[CHOOSE t \in tagTable : tagName[t] = n]]

\* The post table ------------------------------------------------------------
\* Mutant: the title is stored as normalizedTitle without normalizing it.
CreatePostValues_RawTitle(title, content, categoryId, published) ==
  [title |-> title, content |-> content, normalizedTitle |-> title,
   published |-> published, slug |-> slug(title), categoryId |-> categoryId]

\* .values({...}) of createPost
CreatePostValues(title, content, categoryId, published) ==
  [title |-> title, content |-> content,
   normalizedTitle |-> normalizeString(title),
   published |-> published, slug |-> slug(title), categoryId |-> categoryId]

\* Mutant: the update stores the new title as normalizedTitle as it is.
UpdatePostSet_RawTitle(title, content, categoryId, published) ==
  [title |-> title, content |-> content, normalizedTitle |-> title,
   published |-> Some(published), slug |-> slug(title), categoryId |-> categoryId]

\* .set({...}) of updatePost
UpdatePostSet(title, content, categoryId, published) ==
  [title |-> title, content |-> content,
   normalizedTitle |-> normalizeString(title),
   published |-> Some(published), slug |-> slug(title), categoryId |-> categoryId]

\* The row a statement writes: published defaults to false.
Row(id, v) ==
  [id |-> id, title |-> v.title, content |-> v.content,
   normalizedTitle |-> v.normalizedTitle,
   published |-> IF IsSome(v.published) THEN Get(v.published) ELSE FALSE,
   slug |-> v.slug, categoryId |-> v.categoryId]

\* .returning({...columns, categoryId}): every column but normalizedTitle
columns(row) ==
  [id |-> row.id, title |-> row.title, content |-> row.content,
   published |-> row.published, slug |-> row.slug, categoryId |-> row.categoryId]

\* Constraints of the schema, in the order the store checks them: an identifier
\* that is no uuid is rejected when the statement is bound (22P02), the unique
\* index on normalizedTitle when the row is written (23505), the foreign key
\* on categoryId at the end of the statement (23503).
UniqueViolation(id, v) ==
  \E j \in DOMAIN postTable :
    j # id /\ postTable[j].normalizedTitle = v.normalizedTitle

CategoryForeignKeyViolation(v) ==
  v.categoryId # null /\ v.categoryId \notin categoryTable

InsertPostCode(v) ==
  IF v.categoryId = BadUuid THEN "22P02"
  ELSE IF UniqueViolation(0, v) THEN "23505"
  ELSE IF CategoryForeignKeyViolation(v) THEN "23503"
  ELSE "ok"

\* An update that matches no row writes nothing and checks nothing.
UpdatePostCode(id, v) ==
  IF ~IsUuid(id) \/ v.categoryId = BadUuid THEN "22P02"
  ELSE IF id \notin DOMAIN postTable THEN "ok"
  ELSE IF UniqueViolation(id, v) THEN "23505"
  ELSE IF CategoryForeignKeyViolation(v) THEN "23503"
  ELSE "ok"

\* The association table: rows (postId, tagId), a bag of tag ids per post ------
\* Mutant: the delete of the old association rows is left out.
DeleteAssociations_None(assoc, postId) == assoc

\* db.delete(postsToTags).where(eq(postsToTags.postId, post.id))
DeleteAssociations(assoc, postId) == [assoc EXCEPT ![postId] = EmptyBag]

\* db.insert(postsToTags).values(selectedTags.map(...))
InsertAssociations(assoc, postId, selectedTags) ==
  [assoc EXCEPT ![postId] = BagAdd(@, SetToBag(selectedTags))]

\* Mutant: the foreign key of postsToTags.postId does not cascade.
CascadeDelete_None(assoc, postId) == assoc

\* on delete cascade of postsToTags.postId
CascadeDelete(assoc, postId) == [assoc EXCEPT ![postId] = EmptyBag]

\* Mutant: if (tagIds.length), an empty array counting as no tagIds.
TagIdsSupplied_NonEmpty(tagIds) == IsSome(tagIds) /\ Get(tagIds) # {}

\* Mutant: the association rows are deleted whether or not tagIds is given.
TagIdsSupplied_Always(tagIds) == TRUE

\* if (tagIds): an array, even an empty one, is truthy; undefined is not
TagIdsSupplied(tagIds) == IsSome(tagIds)

\* if (tagIds && tagIds.length > 0); createPost tests the length alone
HasTagIds(tagIds) == IsSome(tagIds) /\ Get(tagIds) # {}

\* The catch blocks: error.code to the operation's errorCode -----------------
\* Mutant: a code without a case is handed on as the errorCode.
GetPostByIdErrorCode_RawCode(code) ==
  IF code = "22P02" THEN "post_not_found" ELSE code

GetPostByIdErrorCode(code) ==
  IF code = "22P02" THEN "post_not_found" ELSE "cannot_get_post"

CreatePostErrorCode(code) ==
  CASE code = "23505" -> "duplicate_post_title"
    [] code \in {"23503", "22P02"} -> "category_not_found"
    [] OTHER -> "cannot_create_post"

\* Mutant: the foreign-key code 23503 is not mapped.
UpdatePostErrorCode_NoForeignKey(code) ==
  CASE code = "23505" -> "duplicate_post_title"
    [] code = "22P02" -> "category_not_found"
    [] OTHER -> "cannot_update_post"

\* Mutant: a failure without a mapped code is answered post_not_found.
UpdatePostErrorCode_NotFound(code) ==
  CASE code = "23505" -> "duplicate_post_title"
    [] code \in {"23503", "22P02"} -> "category_not_found"
    [] OTHER -> "post_not_found"

UpdatePostErrorCode(code) ==
  CASE code = "23505" -> "duplicate_post_title"
    [] code \in {"23503", "22P02"} -> "category_not_found"
    [] OTHER -> "cannot_update_post"

\* Mutant: the catch block of deletePost has no case for 22P02.
DeletePostErrorCode_Generic(code) == "cannot_delete_post"

DeletePostErrorCode(code) ==
  IF code = "22P02" THEN "post_not_found" ELSE "cannot_delete_post"

ErrorCodeOf(op, code) ==
  CASE op = "getPostById" -> GetPostByIdErrorCode(code)
    [] op = "createPost" -> CreatePostErrorCode(code)
    [] op = "updatePost" -> UpdatePostErrorCode(code)
    [] op = "deletePost" -> DeletePostErrorCode(code)

\* Callers -------------------------------------------------------------------
NoArgs ==
  [id |-> 0, title |-> <<>>, content |-> "", categoryId |-> null,
   published |-> None, tagIds |-> None]

\* post, selectedTags, tags: the locals of the call.  The rest is history,
\* read by the properties only: follows (the request arrived after every
\* other one was answered), wrote (the call has changed a table), old (the
\* association rows its delete removed).  body is the JSON body of a PUT
\* request, held by its handler until it calls updatePost.
IdleProc ==
  [pc |-> "idle", op |-> "none", args |-> NoArgs, post |-> None,
   selectedTags |-> {}, tags |-> EmptyBag,
   follows |-> FALSE, wrote |-> FALSE, old |-> EmptyBag,
   body |-> None,
   result |-> [data |-> None, errorCode |-> null]]

Call(p, op, args) ==
  [IdleProc EXCEPT !.op = op, !.args = args,
                   !.follows = \A q \in Procs \ {p} : proc[q].pc = "responded"]

\* Past its first statement a call reads of its arguments only id and tagIds.
Live(r) ==
  [r EXCEPT !.args = [NoArgs EXCEPT !.id = r.args.id, !.tagIds = r.args.tagIds]]


\* The store outlives the process.  It starts empty, or as an earlier
\* createPost({title: "Ab", content: "text", tagIds: ["t1", "t2"]}) left it.
Init ==
  /\ \/ /\ postTable = <<>>
        /\ postsToTags = [i \in PostIds |-> EmptyBag]
        /\ nextId = 1
     \/ /\ postTable = 1 :> Row(1, CreatePostValues(<<"A", "b">>, "text", null, None))
        /\ postsToTags = [i \in PostIds |-> IF i = 1 THEN SetToBag({"t1", "t2"}) ELSE EmptyBag]
        /\ nextId = 2
  /\ proc = [p \in Procs |-> IdleProc]

\* The return of a call and the response built from it are not interleaved
\* with another caller's statements.
Busy == \E q \in Procs : proc[q].pc = "done"

\* Requests are interchangeable: they are numbered as they arrive.
Begin(p) ==
  /\ ~Busy
  /\ proc[p].pc = "idle"
  /\ \A q \in Procs : q < p => proc[q].pc # "idle"

\* The call goes on to its next statement.
Continue(p, r, pc) == proc' = [proc EXCEPT ![p] = [r EXCEPT !.pc = pc]]

\* return { data, errorCode }
Return(p, r, data, errorCode) ==
  proc' = [proc EXCEPT ![p] =
             [r EXCEPT !.pc = "done",
                       !.result = [data |-> data, errorCode |-> errorCode]]]

\* throw, caught by the catch block of the operation
Throw(p, r, code) == Return(p, r, None, ErrorCodeOf(r.op, code))

\* The tags of a post as the reader's join returns them.
TagsOf(id) == NamesOf(postsToTags[id])

CategoryOf(row) ==
  IF row.categoryId \in categoryTable THEN categoryName[row.categoryId] ELSE null

\* Mutant: the category branch is never taken.
HasCategory_Never(post) == FALSE

\* if (post.categoryId)
HasCategory(post) == post.categoryId # null

\* getPosts: one relational query
getPosts(p) ==
  /\ Begin(p)
  /\ UNCHANGED <<postTable, postsToTags, nextId>>
  /\ Return(p, Call(p, "getPosts", NoArgs),
            Some([i \in DOMAIN postTable |->
                    [post |-> columns(postTable[i]),
                     category |-> CategoryOf(postTable[i]),
                     tags |-> TagsOf(i)]]),
            null)

\* getPostById: the select of the post row
getPostById(p) ==
  /\ Begin(p)
  /\ UNCHANGED <<postTable, postsToTags, nextId>>
  /\ \E id \in PostIdInputs :
       LET r == Call(p, "getPostById", [NoArgs EXCEPT !.id = id])
       IN IF ~IsUuid(id) THEN Throw(p, r, "22P02")
          ELSE IF id \notin DOMAIN postTable THEN Throw(p, r, "22P02")
          ELSE Continue(p, [Live(r) EXCEPT !.post = Some(postTable[id])], "getPostById_tags")

\* getPostById: the select of the tag names
getPostById_tags(p) ==
  /\ ~Busy
  /\ proc[p].pc = "getPostById_tags"
  /\ UNCHANGED <<postTable, postsToTags, nextId>>
  /\ LET r == proc[p]
         post == Get(r.post)
     IN Return(p, r,
               Some([post |-> columns(post), category |-> CategoryOf(post),
                     tags |-> Some(TagsOf(post.id))]),
               null)

\* deletePost: the delete of the post row, its associations with it
deletePost(p) ==
  /\ Begin(p)
  /\ UNCHANGED nextId
  /\ \E id \in PostIdInputs :
       LET r == Call(p, "deletePost", [NoArgs EXCEPT !.id = id])
       IN IF ~IsUuid(id) \/ id \notin DOMAIN postTable
          THEN /\ UNCHANGED <<postTable, postsToTags>>
               /\ Throw(p, r, "22P02")
          ELSE /\ postTable' = [i \in DOMAIN postTable \ {id} |-> postTable[i]]
               /\ postsToTags' = CascadeDelete(postsToTags, id)
               /\ Return(p, [r EXCEPT !.wrote = TRUE, !.old = postsToTags[id]],
                         Some([id |-> id]), null)

\* The tag select of createPost and updatePost, and what follows it without
\* another statement: inArray over an id that is no uuid is rejected by the
\* store; .values([]) of the association insert throws an Error with no code.
SelectTags(p, r, next) ==
  IF BadUuid \in Get(r.args.tagIds) THEN Throw(p, r, "22P02")
  ELSE LET selectedTags == Get(r.args.tagIds) \cap tagTable
       IN IF selectedTags = {} THEN Throw(p, r, "none")
          ELSE Continue(p, [r EXCEPT !.selectedTags = selectedTags], next)

\* createPost: the insert of the post row
createPost(p) ==
  /\ Begin(p)
  /\ \E title \in Titles, content \in Contents, categoryId \in CategoryIdInputs,
        published \in {None, Some(TRUE)}, tagIds \in TagIdsInputs :
       LET args == [id |-> 0, title |-> title, content |-> content,
                    categoryId |-> categoryId, published |-> published,
                    tagIds |-> Some(tagIds)]
           r == Call(p, "createPost", args)
           v == CreatePostValues(title, content, categoryId, published)
           code == InsertPostCode(v)
       IN IF code # "ok"
          THEN /\ UNCHANGED <<postTable, postsToTags, nextId>>
               /\ Throw(p, r, code)
          ELSE /\ nextId <= MaxPosts
               /\ postTable' = postTable @@ (nextId :> Row(nextId, v))
               /\ nextId' = nextId + 1
               /\ UNCHANGED postsToTags
               /\ LET post == columns(Row(nextId, v))
                      r1 == [r EXCEPT !.post = Some(post), !.wrote = TRUE]
                  IN IF HasCategory(post)
                     THEN Continue(p, Live(r1), "createPost_category")
                     ELSE IF HasTagIds(args.tagIds)
                          THEN Continue(p, Live(r1), "createPost_tags")
                          ELSE Return(p, r1,
                                      Some([post |-> post, category |-> null,
                                            tags |-> Some(NamesOf(r1.tags))]),
                                      null)

\* createPost: the select of the category name
createPost_category(p) ==
  /\ ~Busy
  /\ proc[p].pc = "createPost_category"
  /\ UNCHANGED <<postTable, postsToTags, nextId>>
  /\ LET r == proc[p]
         post == Get(r.post)
     IN IF post.categoryId \notin categoryTable THEN Throw(p, r, "none")
        ELSE Return(p, r,
                    Some([post |-> post, category |-> categoryName[post.categoryId],
                          tags |-> None]),
                    null)

\* createPost: the select of the tags
createPost_tags(p) ==
  /\ ~Busy
  /\ proc[p].pc = "createPost_tags"
  /\ UNCHANGED <<postTable, postsToTags, nextId>>
  /\ SelectTags(p, proc[p], "createPost_insertTags")

\* createPost: the insert of the association rows
createPost_insertTags(p) ==
  /\ ~Busy
  /\ proc[p].pc = "createPost_insertTags"
  /\ UNCHANGED <<postTable, nextId>>
  /\ LET r == proc[p]
         post == Get(r.post)
     IN IF post.id \notin DOMAIN postTable
        THEN /\ UNCHANGED postsToTags
             /\ Throw(p, r, "23503")
        ELSE /\ postsToTags' = InsertAssociations(postsToTags, post.id, r.selectedTags)
             /\ LET r1 == [r EXCEPT !.tags = SetToBag(r.selectedTags)]
                IN Return(p, r1,
                          Some([post |-> post, category |-> null,
                                tags |-> Some(NamesOf(r1.tags))]),
                          null)

\* What updatePost does after its association statements: the category
\* branch selects the name first, the other returns at once.
UpdateTail(p, r) ==
  IF HasCategory(Get(r.post))
  THEN Continue(p, r, "updatePost_category")
  ELSE Return(p, r, Some([post |-> Get(r.post), category |-> null, tags |-> None]), null)

\* updatePost: the update of the post row, r the call with its arguments
UpdatePostStatement(p, r) ==
  LET args == r.args
      v == UpdatePostSet(args.title, args.content, args.categoryId, Get(args.published))
      code == UpdatePostCode(args.id, v)
  IN IF code # "ok"
     THEN /\ UNCHANGED postTable
          /\ Throw(p, r, code)
     ELSE IF args.id \notin DOMAIN postTable
     THEN \* const [post] = []: post.id or post.categoryId is a TypeError
          /\ UNCHANGED postTable
          /\ Throw(p, r, "none")
     ELSE /\ postTable' = [postTable EXCEPT ![args.id] = Row(args.id, v)]
          /\ LET r1 == [r EXCEPT !.post = Some(columns(Row(args.id, v))),
                                 !.wrote = (Row(args.id, v) # postTable[args.id])]
             IN IF TagIdsSupplied(args.tagIds)
                THEN Continue(p, Live(r1), "updatePost_delete")
                ELSE UpdateTail(p, r1)

updatePost(p) ==
  /\ Begin(p)
  /\ UNCHANGED <<postsToTags, nextId>>
  /\ \E id \in PostIdInputs, title \in Titles, content \in Contents,
        categoryId \in CategoryIdInputs, published \in BOOLEAN,
        tagIds \in {None} \cup {Some(t) : t \in TagIdsInputs} :
       UpdatePostStatement(p, Call(p, "updatePost",
         [id |-> id, title |-> title, content |-> content,
          categoryId |-> categoryId, published |-> Some(published),
          tagIds |-> tagIds]))

\* updatePost: the delete of the post's association rows
updatePost_delete(p) ==
  /\ ~Busy
  /\ proc[p].pc = "updatePost_delete"
  /\ UNCHANGED <<postTable, nextId>>
  /\ LET r == proc[p]
         post == Get(r.post)
         r1 == [r EXCEPT !.old = postsToTags[post.id],
                         !.wrote = @ \/ postsToTags[post.id] # EmptyBag]
     IN /\ postsToTags' = DeleteAssociations(postsToTags, post.id)
        /\ IF HasTagIds(r.args.tagIds)
           THEN Continue(p, r1, "updatePost_tags")
           ELSE UpdateTail(p, r1)

\* updatePost: the select of the tags
updatePost_tags(p) ==
  /\ ~Busy
  /\ proc[p].pc = "updatePost_tags"
  /\ UNCHANGED <<postTable, postsToTags, nextId>>
  /\ SelectTags(p, proc[p], "updatePost_insertTags")

\* updatePost: the insert of the association rows
updatePost_insertTags(p) ==
  /\ ~Busy
  /\ proc[p].pc = "updatePost_insertTags"
  /\ UNCHANGED <<postTable, nextId>>
  /\ LET r == proc[p]
         post == Get(r.post)
     IN IF post.id \notin DOMAIN postTable
        THEN /\ UNCHANGED postsToTags
             /\ Throw(p, r, "23503")
        ELSE /\ postsToTags' = InsertAssociations(postsToTags, post.id, r.selectedTags)
             /\ UpdateTail(p, [r EXCEPT !.tags = SetToBag(r.selectedTags),
                                         !.wrote = TRUE])

\* updatePost: the select of the category name
updatePost_category(p) ==
  /\ ~Busy
  /\ proc[p].pc = "updatePost_category"
  /\ UNCHANGED <<postTable, postsToTags, nextId>>
  /\ LET r == proc[p]
         post == Get(r.post)
     IN IF post.categoryId \notin categoryTable THEN Throw(p, r, "none")
        ELSE Return(p, r,
                    Some([post |-> post, category |-> categoryName[post.categoryId],
                          tags |-> Some(NamesOf(r.tags))]),
                    null)

\* The request handler has its answer; the caller takes the next request.
\* The request is answered.  Of an answered request the record keeps the
\* operation, the post it was about, its tagIds, its errorCode and the
\* association rows it deleted.
Respond(p) ==
  /\ proc[p].pc = "done"
  /\ LET r == proc[p]
         id == IF IsSome(r.post) THEN Get(r.post).id ELSE r.args.id
     IN proc' = [proc EXCEPT ![p] =
                   [IdleProc EXCEPT
                      !.pc = "responded", !.op = r.op,
                      !.args = [NoArgs EXCEPT !.id = id, !.tagIds = r.args.tagIds],
                      !.follows = r.follows, !.old = r.old,
                      !.result = [data |-> None, errorCode |-> r.result.errorCode]]]
  /\ UNCHANGED <<postTable, postsToTags, nextId>>

Next ==
  \E p \in Procs :
    \/ getPosts(p)
    \/ getPostById(p)
    \/ getPostById_tags(p)
    \/ createPost(p)
    \/ createPost_category(p)
    \/ createPost_tags(p)
    \/ createPost_insertTags(p)
    \/ updatePost(p)
    \/ updatePost_delete(p)
    \/ updatePost_tags(p)
    \/ updatePost_insertTags(p)
    \/ updatePost_category(p)
    \/ deletePost(p)
    \/ Respond(p)

Spec == Init /\ [][Next]_vars

\* The handler of PUT /:id (router.ts) ------------------------------------------
\* The body of the request after postSchema.partial(): every field may be
\* absent.
PutContents == {"more text"}
Bodies ==
  [title : {None, Some(<<"C">>)},
   content : {None} \cup {Some(c) : c \in PutContents},
   categoryId : {None, Some("c1")},
   published : {None, Some(TRUE)},
   tagIds : {None, Some({"t1"})}]

\* The fields of the post row a body gives no value for.
Omitted(body) ==
  {f \in {"title", "content", "categoryId", "published"} : ~IsSome(body[f])}

\* The data updatePost is called with: a field of the body, or else the
\* field of the post as getPostById returned it.
PutData(id, body, existedPost) ==
  [id |-> id,
   title |-> IF IsSome(body.title) THEN Get(body.title) ELSE existedPost.title,
   content |-> IF IsSome(body.content) THEN Get(body.content) ELSE existedPost.content,
   categoryId |-> IF body.categoryId = None THEN existedPost.categoryId
                  ELSE Get(body.categoryId),
   published |-> Some(IF body.published = None THEN existedPost.published
                      ELSE Get(body.published)),
   tagIds |-> body.tagIds]

\* put: the request arrives, getPostById selects the post row
put(p) ==
  /\ Begin(p)
  /\ UNCHANGED <<postTable, postsToTags, nextId>>
  /\ \E id \in PostIdInputs, body \in Bodies :
       LET r == [Call(p, "getPostById", [NoArgs EXCEPT !.id = id])
                   EXCEPT !.body = Some(body)]
       IN IF ~IsUuid(id) \/ id \notin DOMAIN postTable THEN Throw(p, r, "22P02")
          ELSE Continue(p, [r EXCEPT !.post = Some(columns(postTable[id]))],
                        "put_getPostById_tags")

\* put: getPostById selects the tag names and returns existedPost
put_getPostById_tags(p) ==
  /\ ~Busy
  /\ proc[p].pc = "put_getPostById_tags"
  /\ UNCHANGED <<postTable, postsToTags, nextId>>
  /\ Continue(p, proc[p], "put_updatePost")

\* put: updatePost is called, its first statement runs
put_updatePost(p) ==
  /\ ~Busy
  /\ proc[p].pc = "put_updatePost"
  /\ UNCHANGED <<postsToTags, nextId>>
  /\ LET r == proc[p]
         data == PutData(r.args.id, Get(r.body), Get(r.post))
     IN UpdatePostStatement(p, [r EXCEPT !.op = "updatePost", !.args = data,
                                         !.post = None, !.body = None])

\* Requests that are all PUT /:id.
NextPut ==
  \E p \in Procs :
    \/ put(p)
    \/ put_getPostById_tags(p)
    \/ put_updatePost(p)
    \/ updatePost_delete(p)
    \/ updatePost_tags(p)
    \/ updatePost_insertTags(p)
    \/ updatePost_category(p)
    \/ Respond(p)

SpecPut == Init /\ [][NextPut]_vars

\* Properties -----------------------------------------------------------------
Done(p) == proc[p].pc = "done"
ErrorCode(p) == proc[p].result.errorCode
Writes == {"createPost", "updatePost"}

\* The step is the first statement of a call of p.
Begins(p) == proc[p].pc = "idle" /\ proc'[p].pc # "idle"

\* The step is the one in which rd reads the tags of post i, and the tag
\* names it obtains.
ReadsTags(rd, i) ==
  \/ proc[rd].pc = "getPostById_tags" /\ Get(proc[rd].post).id = i
  \/ /\ Begins(rd)
     /\ proc'[rd].op = "getPosts"
     /\ i \in DOMAIN Get(proc'[rd].result.data)

ObservedTags(rd, i) ==
  IF proc'[rd].op = "getPosts" THEN Get(proc'[rd].result.data)[i].tags
  ELSE Get(Get(proc'[rd].result.data).tags)

\* The tag sets of w's post before and after w's call, w being between the
\* statements that replace (updatePost) or first write (createPost) them.
\* A post that createPost is still writing has no tag set from before.
Replacing(w) == proc[w].pc \in {"updatePost_tags", "updatePost_insertTags"}
Creating(w) == proc[w].pc \in {"createPost_tags", "createPost_insertTags"}
TagSetAfter(w) == NamesOf(SetToBag(Get(proc[w].args.tagIds) \cap tagTable))
TagSetsOf(w) ==
  IF Replacing(w) THEN {NamesOf(proc[w].old), TagSetAfter(w)} ELSE {TagSetAfter(w)}

\* C1: while updatePost replaces a post's tag set, or createPost writes the
\* post and then its associations, a concurrent getPostById or getPosts
\* obtains for that post the tag set from before the call or the one after it.
C1_AtomicToReaders ==
  [][\A rd \in Procs : \A w \in Procs \ {rd} :
       (Replacing(w) \/ Creating(w)) /\ ReadsTags(rd, Get(proc[w].post).id)
         => ObservedTags(rd, Get(proc[w].post).id) \in TagSetsOf(w)]_vars

\* C2: a createPost or updatePost that returns an errorCode has changed
\* neither the post table nor the association table.
C2_RollbackOnFailure ==
  \A p \in Procs :
    Done(p) /\ proc[p].op \in Writes /\ ErrorCode(p) # null => ~proc[p].wrote

\* The title and the categoryId a write call was given: its arguments, or,
\* past its first statement, the columns of the row it wrote.
Title(r) == IF IsSome(r.post) THEN Get(r.post).title ELSE r.args.title
CategoryId(r) == IF IsSome(r.post) THEN Get(r.post).categoryId ELSE r.args.categoryId

SameNormalizedForm(t1, t2) == normalizeString(t1) = normalizeString(t2)

\* The rows of table whose title has the normalized form of title t.
RowsTitled(table, t) == {i \in DOMAIN table : SameNormalizedForm(table[i].title, t)}

Fails(r, errorCode) ==
  r.pc = "done" /\ r.result = [data |-> None, errorCode |-> errorCode]

\* createPost is called with title T2 while a post titled T1, of the same
\* normalized form, exists.
CreatesDuplicate(p) ==
  /\ Begins(p)
  /\ proc'[p].op = "createPost"
  /\ RowsTitled(postTable, Title(proc'[p])) # {}

\* C3 as stated: for all titles T1, T2 of the same normalized form,
\* createPost with T2 when a post with T1 exists returns null data with
\* errorCode duplicate_post_title, and exactly one post row has that
\* normalized title afterwards.
C3_DuplicateTitle ==
  [][\A p \in Procs :
       CreatesDuplicate(p)
         => /\ Fails(proc'[p], "duplicate_post_title")
            /\ Cardinality(RowsTitled(postTable', Title(proc'[p]))) = 1]_vars

\* C3 amended: such a createPost returns null data and leaves exactly one
\* post row of that normalized title; its errorCode is duplicate_post_title,
\* unless its categoryId is not a well-formed id, and then category_not_found.
C3_DuplicateTitleOrMalformedCategory ==
  [][\A p \in Procs :
       CreatesDuplicate(p)
         => /\ Fails(proc'[p],
                     IF CategoryId(proc'[p]) = BadUuid THEN "category_not_found"
                     ELSE "duplicate_post_title")
            /\ Cardinality(RowsTitled(postTable', Title(proc'[p]))) = 1]_vars

\* A createPost with a title T2 was refused as a duplicate of a post whose
\* title T1 is another string of the same normalized form.
C3_Witness ==
  \E p \in Procs :
    /\ Fails(proc[p], "duplicate_post_title")
    /\ proc[p].op = "createPost"
    /\ \E i \in RowsTitled(postTable, proc[p].args.title) :
         postTable[i].title # proc[p].args.title

\* Every post row carries the normalized form of its own title, and no two
\* rows carry the same one.
TitlesNormalizedAndUnique(table) ==
  /\ \A i \in DOMAIN table : table[i].normalizedTitle = normalizeString(table[i].title)
  /\ \A i, j \in DOMAIN table :
       i # j => table[i].normalizedTitle # table[j].normalizedTitle

\* p's first statement writes a title to a row (a new one, or the existing
\* row id) while another row already has a title of that normalized form:
\* p is the later of two writers of one normalized title.
LosesTitleRace(p) ==
  /\ Begins(p)
  /\ proc'[p].op \in Writes
  /\ proc'[p].op = "updatePost" => proc'[p].args.id \in DOMAIN postTable
  /\ RowsTitled(postTable, Title(proc'[p])) \ {proc'[p].args.id} # {}

\* C4 as stated: after any interleaving of createPost and updatePost every
\* post row's normalizedTitle is normalize(title) and no two rows share one;
\* of two writers of one normalized title the later one changes nothing and
\* returns duplicate_post_title.
C4_UniqueNormalizedTitle ==
  [][/\ TitlesNormalizedAndUnique(postTable')
     /\ \A p \in Procs :
          LosesTitleRace(p)
            => Fails(proc'[p], "duplicate_post_title") /\ tables' = tables]_vars

\* C4 amended: the same, the later writer returning duplicate_post_title
\* unless its categoryId is not a well-formed id, and then category_not_found.
C4_UniqueNormalizedTitleOrMalformedCategory ==
  [][/\ TitlesNormalizedAndUnique(postTable')
     /\ \A p \in Procs :
          LosesTitleRace(p)
            => /\ Fails(proc'[p],
                        IF CategoryId(proc'[p]) = BadUuid THEN "category_not_found"
                        ELSE "duplicate_post_title")
               /\ tables' = tables]_vars

InFlight(p) == proc[p].pc \notin {"idle", "done", "responded"}

\* Two overlapping writers of one normalized title: one has written its row
\* and is not finished, the other was refused with duplicate_post_title.
C4_Witness ==
  \E p \in Procs : \E q \in Procs \ {p} :
    /\ InFlight(p) /\ proc[p].op \in Writes
    /\ proc[q].op \in Writes /\ Fails(proc[q], "duplicate_post_title")
    /\ SameNormalizedForm(Get(proc[p].post).title, proc[q].args.title)
    /\ Cardinality(DOMAIN postTable) = 2

\* createPost, or updatePost of an existing post, is called with a categoryId
\* that references no existing category.
WritesUnknownCategory(p) ==
  /\ Begins(p)
  /\ proc'[p].op \in Writes
  /\ proc'[p].op = "updatePost" => proc'[p].args.id \in DOMAIN postTable
  /\ CategoryId(proc'[p]) \notin categoryTable \cup {null}

\* C5 as stated: such a call returns category_not_found and the store is
\* unchanged: no post row created, no field and no association modified.
C5_CategoryNotFound ==
  [][\A p \in Procs :
       WritesUnknownCategory(p)
         => Fails(proc'[p], "category_not_found") /\ tables' = tables]_vars

\* C5 amended: such a call returns null data and the store is unchanged; the
\* errorCode is category_not_found, unless the categoryId is a well-formed id
\* and the title has the normalized form of another post's title, and then
\* duplicate_post_title.
C5_CategoryNotFoundOrDuplicateTitle ==
  [][\A p \in Procs :
       WritesUnknownCategory(p)
         => /\ Fails(proc'[p],
                     IF /\ CategoryId(proc'[p]) # BadUuid
                        /\ RowsTitled(postTable, Title(proc'[p])) \ {proc'[p].args.id} # {}
                     THEN "duplicate_post_title"
                     ELSE "category_not_found")
            /\ tables' = tables]_vars

\* An updatePost that supplied tagIds and an unknown category for a post with
\* associations was refused with category_not_found.
C5_Witness ==
  \E p \in Procs :
    /\ proc[p].op = "updatePost" /\ Fails(proc[p], "category_not_found")
    /\ proc[p].args.categoryId = "c9"
    /\ proc[p].args.tagIds = Some({})
    /\ proc[p].args.id \in DOMAIN postTable
    /\ postsToTags[proc[p].args.id] # EmptyBag

Succeeds(r) == r.pc = "done" /\ r.result.errorCode = null

\* C6: no association row references a post id that has no post row; a
\* post that deletePost has deleted has no association row left.
C6_NoOrphanAssociations ==
  \A i \in PostIds : i \notin DOMAIN postTable => postsToTags[i] = EmptyBag

\* deletePost has deleted a post that had association rows.
C6_Witness ==
  \E p \in Procs :
    /\ proc[p].op = "deletePost" /\ Succeeds(proc[p])
    /\ proc[p].old # EmptyBag
    /\ proc[p].args.id \notin DOMAIN postTable

\* An answered updatePost that succeeded.
Updated(r) == r.pc = "responded" /\ r.op = "updatePost" /\ r.result.errorCode = null

\* q repeats, right after it, the updatePost of p: same post, same tagIds,
\* all of them ids of existing tags.
UpdatesTwice(p, q) ==
  /\ Updated(proc[p])
  /\ proc[q].op = "updatePost" /\ proc[q].follows /\ Succeeds(proc[q])
  /\ proc[q].args.id = proc[p].args.id
  /\ IsSome(proc[q].args.tagIds)
  /\ proc[q].args.tagIds = proc[p].args.tagIds
  /\ Get(proc[q].args.tagIds) \subseteq tagTable

\* C7: after updatePost is called twice in a row on a post with the same
\* tagIds, the post has exactly one association row per tag of the set and
\* no other, which is what it had after the first call.
C7_TagReplacementIdempotent ==
  \A p \in Procs : \A q \in Procs \ {p} :
    UpdatesTwice(p, q)
      => /\ postsToTags[proc[q].args.id] = SetToBag(Get(proc[q].args.tagIds))
         /\ proc[q].old = SetToBag(Get(proc[q].args.tagIds))

C7_Witness ==
  \E p \in Procs : \E q \in Procs \ {p} :
    UpdatesTwice(p, q) /\ Get(proc[q].args.tagIds) = {"t1", "t2"}

\* No request overlapped p's call.
Alone(p) ==
  \A q \in Procs \ {p} :
    proc[q].pc = "idle" \/ (proc[q].pc = "responded" /\ proc[p].follows)

\* An updatePost of p with tagIds = [] that succeeded.
ClearsTags(r) ==
  r.op = "updatePost" /\ r.result.errorCode = null /\ r.args.tagIds = Some({})

\* q is a getPostById of the post of p's answered call, begun after it.
ReadsAfter(p, q) ==
  /\ proc[p].pc = "responded"
  /\ proc[q].op = "getPostById" /\ proc[q].follows /\ Succeeds(proc[q])
  /\ proc[q].args.id = proc[p].args.id

\* C8: updatePost of an existing post with tagIds = [] removes every
\* association row of the post, whatever its tags and category were, and a
\* subsequent getPostById returns tags = [].
C8_EmptyTagIdsClears ==
  /\ \A p \in Procs :
       proc[p].pc = "done" /\ ClearsTags(proc[p]) /\ Alone(p)
         => postsToTags[proc[p].args.id] = EmptyBag
  /\ \A p \in Procs : \A q \in Procs \ {p} :
       ClearsTags(proc[p]) /\ ReadsAfter(p, q)
         => Get(proc[q].result.data).tags = Some(NamesOf(EmptyBag))

\* A post that had association rows was cleared and then read.
C8_Witness ==
  \E p \in Procs : \E q \in Procs \ {p} :
    ClearsTags(proc[p]) /\ ReadsAfter(p, q) /\ proc[p].old # EmptyBag

\* The step is one of an updatePost of p that was given no tagIds.
UpdatesWithoutTagIds(p) ==
  /\ proc'[p] # proc[p]
  /\ proc'[p].op = "updatePost"
  /\ ~IsSome(proc'[p].args.tagIds)

\* C9: no statement of an updatePost called without tagIds changes an
\* association row, of its post or of another, whether the call succeeds
\* or fails.
C9_OmittedTagIdsFrame ==
  [][\A p \in Procs : UpdatesWithoutTagIds(p) => postsToTags' = postsToTags]_vars

\* An updatePost without tagIds has rewritten the row of a post that has
\* association rows.
C9_Witness ==
  \E p \in Procs :
    /\ proc[p].op = "updatePost" /\ Succeeds(proc[p])
    /\ ~IsSome(proc[p].args.tagIds)
    /\ proc[p].wrote
    /\ postsToTags[proc[p].args.id] # EmptyBag

\* getPostById or deletePost is called with an id that has no post row.
AsksForMissingPost(p) ==
  /\ Begins(p)
  /\ proc'[p].op \in {"getPostById", "deletePost"}
  /\ proc'[p].args.id \notin DOMAIN postTable

\* C10: getPostById and deletePost of an id without a post row, never
\* created or already deleted, return null data with post_not_found and
\* change no table, so that repeating the call gives the same.
C10_NotFoundStable ==
  [][\A p \in Procs :
       AsksForMissingPost(p)
         => Fails(proc'[p], "post_not_found") /\ tables' = tables]_vars

\* deletePost is repeated on the id of a post it has deleted.
C10_Witness ==
  \E p \in Procs : \E q \in Procs \ {p} :
    /\ proc[p].pc = "responded" /\ proc[p].op = "deletePost"
    /\ proc[p].result.errorCode = null
    /\ proc[q].op = "deletePost" /\ proc[q].follows
    /\ proc[q].args.id = proc[p].args.id
    /\ Fails(proc[q], "post_not_found")

\* The call of r has written its post row and was given a non-empty tagIds
\* of well-formed ids, some of which are ids of no tag; createPost, without
\* a category.
GivenUnknownTagIds(r) ==
  /\ r.op \in Writes /\ IsSome(r.post)
  /\ r.op = "createPost" => Get(r.post).categoryId = null
  /\ HasTagIds(r.args.tagIds)
  /\ BadUuid \notin Get(r.args.tagIds)
  /\ Get(r.args.tagIds) \ tagTable # {}

\* C11: createPost without a category, and updatePost, given a non-empty
\* tagIds some or all of which are ids of no tag, succeed, and the post's
\* association rows are exactly those of the supplied ids that are tags,
\* none when no supplied id is one.
C11_UnknownTagIdsDropped ==
  \A p \in Procs :
    Done(p) /\ Alone(p) /\ GivenUnknownTagIds(proc[p])
      => /\ ErrorCode(p) = null
         /\ postsToTags[Get(proc[p].post).id]
              = SetToBag(Get(proc[p].args.tagIds) \cap tagTable)

\* C12: a successful updatePost that was given tagIds returns the names of
\* the tags of the new association set, the updated post having a category
\* or none.
C12_UpdateReturnsTags ==
  \A p \in Procs :
    /\ Done(p) /\ proc[p].op = "updatePost" /\ ErrorCode(p) = null
    /\ IsSome(proc[p].args.tagIds)
    => Get(proc[p].result.data).tags
         = Some(NamesOf(SetToBag(Get(proc[p].args.tagIds) \cap tagTable)))

\* Storage failures ------------------------------------------------------------
\* The store may refuse any statement: with one of the codes the catch blocks
\* map, with another code (57P01, the server shutting down), or by an Error
\* that carries no code (a lost connection).  A refused statement writes
\* nothing.
FailureCodes == {"22P02", "23505", "23503", "57P01", "none"}

\* The operations whose statements are inside a try block.
Guarded == {"getPostById", "createPost", "updatePost", "deletePost"}

\* The statement p is about to run, the first of a call or a later one,
\* fails with a code; the catch block of the operation classifies it.
StorageFailure(p) ==
  /\ UNCHANGED <<postTable, postsToTags, nextId>>
  /\ \E code \in FailureCodes :
       \/ /\ Begin(p)
          /\ \E op \in Guarded, id \in PostIds :
               Throw(p, Call(p, op, [NoArgs EXCEPT !.id = IF op = "createPost" THEN 0 ELSE id]), code)
       \/ /\ ~Busy
          /\ InFlight(p)
          /\ Throw(p, proc[p], code)

NextFaulty == Next \/ \E p \in Procs : StorageFailure(p)

SpecFaulty == Init /\ [][NextFaulty]_vars

\* The error kinds of each operation, its generic kind, and the store's codes
\* its catch block has a case for.
ErrorCodes(op) ==
  CASE op = "getPostById" -> {"post_not_found", "cannot_get_post"}
    [] op = "createPost" -> {"duplicate_post_title", "category_not_found", "cannot_create_post"}
    [] op = "updatePost" -> {"duplicate_post_title", "category_not_found", "cannot_update_post"}
    [] op = "deletePost" -> {"post_not_found", "cannot_delete_post"}

GenericErrorCode(op) ==
  CASE op = "getPostById" -> "cannot_get_post"
    [] op = "createPost" -> "cannot_create_post"
    [] op = "updatePost" -> "cannot_update_post"
    [] op = "deletePost" -> "cannot_delete_post"

MappedCodes(op) ==
  IF op \in Writes THEN {"23505", "23503", "22P02"} ELSE {"22P02"}

\* C13: whatever statement the store refuses, and with whatever code,
\* getPostById, createPost, updatePost and deletePost return data with
\* errorCode null, or null data with an errorCode of the operation's closed
\* set; a code the catch block has no case for gives the generic kind.
C13_ClosedErrorSets ==
  /\ \A p \in Procs :
       Done(p) /\ proc[p].op \in Guarded
         => \/ IsSome(proc[p].result.data) /\ ErrorCode(p) = null
            \/ proc[p].result.data = None /\ ErrorCode(p) \in ErrorCodes(proc[p].op)
  /\ \A op \in Guarded : \A code \in FailureCodes \ MappedCodes(op) :
       ErrorCodeOf(op, code) = GenericErrorCode(op)

\* A statement of getPostById and one of deletePost were refused by the store:
\* without it neither operation returns its generic kind.
C13_Witness ==
  \E p \in Procs : \E q \in Procs \ {p} :
    /\ proc[p].pc = "responded"
    /\ proc[p].op = "getPostById" /\ proc[p].result.errorCode = "cannot_get_post"
    /\ proc[q].op = "deletePost" /\ Fails(proc[q], "cannot_delete_post")

\* C14: createPost and updatePost return category_not_found only for a
\* failure of the post row's statement on a categoryId that is the id of no
\* category; a failure of the tag select or of the association insert gives
\* the generic cannot_create_post / cannot_update_post.
C14_CategoryNotFoundOnlyForCategory ==
  \A p \in Procs :
    Done(p) /\ proc[p].op \in Writes /\ ErrorCode(p) # null
      => /\ ErrorCode(p) = "category_not_found"
              => /\ ~IsSome(proc[p].post)
                 /\ proc[p].args.categoryId \notin categoryTable \cup {null}
         /\ IsSome(proc[p].post) => ErrorCode(p) = GenericErrorCode(proc[p].op)

\* The step is one of a createPost of p whose post row has a category.
CreatesWithCategory(p) ==
  /\ proc'[p] # proc[p]
  /\ proc'[p].op = "createPost"
  /\ IsSome(proc'[p].post)
  /\ Get(proc'[p].post).categoryId # null

\* C15: a createPost with a categoryId, whatever its tagIds, inserts its post
\* row with no association row and none of its statements changes the
\* association table; when it succeeds its payload has the name of the
\* category and no tags.  Only a createPost without category writes
\* association rows.
C15_CategoryExcludesTags ==
  [][\A p \in Procs :
       CreatesWithCategory(p)
         => /\ postsToTags' = postsToTags
            /\ postsToTags'[Get(proc'[p].post).id] = EmptyBag \/ ~Begins(p)
            /\ Succeeds(proc'[p])
                 => /\ Get(proc'[p].result.data).category
                         = categoryName[Get(proc'[p].post).categoryId]
                    /\ Get(proc'[p].result.data).tags = None]_vars

\* createPost with a category and tagIds ['t1', 't2'] has succeeded and its
\* post has no association row.
C15_Witness ==
  \E p \in Procs :
    /\ proc[p].op = "createPost" /\ Succeeds(proc[p])
    /\ Get(proc[p].post).categoryId = "c1"
    /\ proc[p].args.tagIds = Some({"t1", "t2"})
    /\ postsToTags[Get(proc[p].post).id] = EmptyBag

\* updatePost is called with an id that has no post row.
UpdatesMissingPost(p) ==
  /\ Begins(p)
  /\ proc'[p].op = "updatePost"
  /\ proc'[p].args.id \notin DOMAIN postTable

\* C16 as stated: updatePost on an id that matches no post row, with or
\* without tagIds, returns null data with cannot_update_post and changes no
\* post row and no association row.
C16_UpdateMissingPost ==
  [][\A p \in Procs :
       UpdatesMissingPost(p)
         => Fails(proc'[p], "cannot_update_post") /\ tables' = tables]_vars

\* C16 amended: such an updatePost returns null data and changes no row; its
\* errorCode is cannot_update_post, unless the id or the categoryId is not a
\* well-formed id, and then category_not_found.
C16_UpdateMissingPostOrMalformedId ==
  [][\A p \in Procs :
       UpdatesMissingPost(p)
         => /\ Fails(proc'[p],
                     IF ~IsUuid(proc'[p].args.id) \/ proc'[p].args.categoryId = BadUuid
                     THEN "category_not_found"
                     ELSE "cannot_update_post")
            /\ tables' = tables]_vars

\* An updatePost with tagIds was refused with cannot_update_post: its post
\* had been deleted by a deletePost.
C16_Witness ==
  \E p \in Procs : \E q \in Procs \ {p} :
    /\ proc[q].pc = "responded" /\ proc[q].op = "deletePost"
    /\ proc[q].result.errorCode = null
    /\ proc[p].op = "updatePost" /\ Fails(proc[p], "cannot_update_post")
    /\ proc[p].args.id = proc[q].args.id
    /\ IsSome(proc[p].args.tagIds)

\* The step is the write of p's PUT handler, no other request being between
\* its statements: every stored field has the value of a completed write.
PutWrites(p) ==
  /\ proc[p].pc = "put_updatePost" /\ proc'[p].pc # "put_updatePost"
  /\ \A q \in Procs \ {p} : proc[q].pc \in {"idle", "responded"}

\* C17: the write of a PUT handler leaves every field its body omits at the
\* value the most recent write gave it, also when another PUT has written
\* the post since the handler's getPostById.
C17_PartialPutPreservesOmitted ==
  [][\A p \in Procs :
       PutWrites(p)
         => \A f \in Omitted(Get(proc[p].body)) :
              postTable'[proc[p].args.id][f] = postTable[proc[p].args.id][f]]_vars
====
